---- MODULE Spec2Model ----
(***************************************************************************)
(* wsgidav/property_manager.py: PropertyManager (in-memory dictionary) and *)
(* ShelvePropertyManager (shelve file), driven by concurrent threads.      *)
(*                                                                         *)
(* A thread is at one statement of one method (pc); every acquisition of   *)
(* the ReadWriteLock and every access to self._loaded / self._dict is a    *)
(* step of its own.  Python objects that are shared by reference (the      *)
(* property dictionaries of the in-memory variant, the local locatordict)  *)
(* live in a heap of addresses; the shelf hands out and stores pickled     *)
(* copies.                                                                 *)
(*                                                                         *)
(* What a thread does before its first acquire (asserts, the dryRun test)  *)
(* touches nothing shared, so a call and its first acquire are one step;   *)
(* a finished call sits in "done" with its result until the caller takes   *)
(* it, which is the very next step.                                        *)
(*                                                                         *)
(* The diagnostic calls _check() and _dump() that the methods make under   *)
(* their lock when self._verbose >= 2 only read the mapping and swallow    *)
(* what they raise; they change nothing and are no step.  _dump and        *)
(* __del__ called by a thread are operations of SpecDiag.                  *)
(***************************************************************************)
EXTENDS Integers, Sequences, FiniteSets, TLC

\* ------------------------------------------------------------------------
\* Bounds and vocabulary
\* ------------------------------------------------------------------------
NumValues == 2

ThreadList == <<"t1", "t2">>
ResourceList == << <<"/", "a">>, <<"/", "b">> >>
Threads == {ThreadList[i] : i \in DOMAIN ThreadList}
Resources == {ResourceList[i] : i \in DOMAIN ResourceList}
Malformed == {<< >>, <<"a">>}
Names == {"p", "q"}
ValueNames == <<"v1", "v2", "v3", "v4">>
Values == {ValueNames[i] : i \in 1..NumValues}
Null == "None"
NoUrl == << >>
Addr == 1..(Len(ResourceList) + Len(ThreadList))

Range(f) == {f[x] : x \in DOMAIN f}
EmptyDict == [x \in {} |-> Null]
Put(d, k, v) == [x \in (DOMAIN d) \cup {k} |-> IF x = k THEN v ELSE d[x]]
Del(d, k) == [x \in (DOMAIN d) \ {k} |-> d[x]]

VARIABLES
    variant,    \* "mem": PropertyManager, "shelve": ShelvePropertyManager
    dict,       \* self._dict: None, a dict (key -> address of its value) or the shelf
    loaded,     \* self._loaded
    held,       \* self._lock: per thread, the stack of modes it holds
    heap,       \* the property dictionaries that exist as Python objects
    db,         \* content of the open shelf, unsynced assignments included
    disk,       \* content of the shelve file on durable media
    pc,         \* per thread: the statement it is at
    op,         \* per thread: the method and arguments of the running call
    rpc,        \* per thread: where _lazyOpen / _sync returns to
    loc,        \* locatordict: the address it is bound to, for the threads that have one
    ret,        \* per thread: the value the finished call returned
    exc,        \* per thread: the exception the call raised, or Null
    \* history of the calls, written by no statement of the program
    watch,      \* which history is kept in this behaviour
    wrote,      \* per thread: the writeProperty it has returned from, while the thread
                \* makes no further call and no call targets the property
    fresh,      \* the resources no writeProperty or copyProperties has targeted
    removed,    \* the resources removeProperties deleted, until they are targeted again
    copied,     \* the last copyProperties with a source: what it copied and whereto,
                \* while its thread makes no further call
    atClose,    \* what the shelf held when it was last closed, until the next change
    twin        \* a second store that is given the same calls, and the call and
                \* result of the store that went first

storeVars == <<variant, dict, loaded, heap, db, disk>>
threadVars == <<pc, op, rpc, loc, ret, exc>>
histVars == <<watch, wrote, fresh, removed, copied, atClose, twin>>
vars == <<variant, dict, loaded, held, heap, db, disk, pc, op, rpc, loc, ret, exc,
          watch, wrote, fresh, removed, copied, atClose, twin>>

NoOp == [name |-> Null, normurl |-> NoUrl, propname |-> Null,
         propertyvalue |-> Null, dryRun |-> FALSE, desturl |-> NoUrl]

\* ------------------------------------------------------------------------
\* ReadWriteLock (rw_lock.py): many readers or one writer; a thread may
\* nest acquisitions and release() gives back the most recent one.
\* ------------------------------------------------------------------------
HoldsWrite(u) == \E i \in DOMAIN held[u] : held[u][i] = "W"
HoldsAny(u) == held[u] # << >>
CanAcquireRead(t) == \A u \in Threads \ {t} : ~HoldsWrite(u)
CanAcquireWrite(t) == \A u \in Threads \ {t} : ~HoldsAny(u)
acquireRead(t) == /\ CanAcquireRead(t)
                  /\ held' = [held EXCEPT ![t] = Append(@, "R")]
acquireWrite(t) == /\ CanAcquireWrite(t)
                   /\ held' = [held EXCEPT ![t] = Append(@, "W")]
release(t) == /\ HoldsAny(t)
              /\ held' = [held EXCEPT ![t] = SubSeq(@, 1, Len(@) - 1)]

\* ------------------------------------------------------------------------
\* The mapping behind self._dict
\* ------------------------------------------------------------------------
NoDict == [kind |-> "None"]
IsDict == dict.kind = "dict"
IsShelf == dict.kind = "shelf"
\* None is no container (TypeError); a closed shelf refuses access (ValueError)
Usable == IsDict \/ IsShelf
Unusable == IF dict.kind = "None" THEN "TypeError" ELSE "ValueError"
\* `normurl in self._dict`
Keys == IF IsDict THEN DOMAIN dict.items ELSE IF IsShelf THEN DOMAIN db ELSE {}
\* the property dictionary stored under a key, as a value
PropsOf(r) == IF IsDict THEN heap[dict.items[r]] ELSE db[r]

\* addresses that some reference still reaches
Live(d, l) == (IF d.kind = "dict" THEN Range(d.items) ELSE {}) \cup Range(l)
\* a fresh object: an address nothing refers to
NewAddr == CHOOSE a \in Addr \ Live(dict, loc) :
               \A b \in Addr \ Live(dict, loc) : a <= b

\* An address is an identity and nothing more.  After a step the objects are
\* numbered in the order the references reach them (the values of the dict
\* key by key, then the locatordict of each thread) and what no reference
\* reaches is dropped, so that two states differ only if the program could
\* tell them apart.
Refs(d, l) ==
    [i \in Addr |->
        IF i <= Len(ResourceList)
          THEN IF d.kind = "dict" /\ ResourceList[i] \in DOMAIN d.items
                 THEN {d.items[ResourceList[i]]} ELSE {}
          ELSE IF ThreadList[i - Len(ResourceList)] \in DOMAIN l
                 THEN {l[ThreadList[i - Len(ResourceList)]]} ELSE {}]
Number(d, l, a) ==
    LET first == CHOOSE i \in Addr :
                     /\ a \in Refs(d, l)[i]
                     /\ \A j \in 1..(i - 1) : a \notin Refs(d, l)[j]
    IN  Cardinality(UNION {Refs(d, l)[j] : j \in 1..first})
Install(d, l, h) ==
    /\ dict' = IF d.kind = "dict"
                 THEN [d EXCEPT !.items = [r \in DOMAIN d.items |-> Number(d, l, d.items[r])]]
                 ELSE d
    /\ loc' = [t \in DOMAIN l |-> Number(d, l, l[t])]
    /\ heap' = [a \in Addr |->
                  IF \E b \in Live(d, l) : Number(d, l, b) = a
                    THEN h[CHOOSE b \in Live(d, l) : Number(d, l, b) = a]
                    ELSE EmptyDict]

Goto(t, p) == pc' = [pc EXCEPT ![t] = p]
\* the `finally:` an exception raised at a statement goes to
Handler ==
    [lo_dict |-> "lo_rel", sy_sync |-> "sy_rel", cl_close |-> "cl_rel",
     gp_read |-> "gp_rel", gps_read |-> "gps_rel",
     wp_fetch |-> "wp_rel", wp_store |-> "wp_rel",
     rp_fetch |-> "rp_rel", rp_store |-> "rp_rel",
     rps_del |-> "rps_rel", cp_copy |-> "cp_rel"]
Raise(t, e, p) == /\ exc' = [exc EXCEPT ![t] = e]
                  /\ pc' = [pc EXCEPT ![t] = p]

NoWrite == [url |-> NoUrl, name |-> Null, value |-> Null]
NoCopy == [src |-> NoUrl, dst |-> NoUrl, props |-> EmptyDict, by |-> Null,
           srcOk |-> FALSE, dstOk |-> FALSE, done |-> FALSE]
NoSnap == [valid |-> FALSE, content |-> EmptyDict]
\* a ShelvePropertyManager as constructed, on an empty file
FirstTwin == [variant |-> "shelve", dict |-> NoDict, loaded |-> FALSE,
              heap |-> [a \in Addr |-> EmptyDict], db |-> EmptyDict, disk |-> EmptyDict,
              turn |-> "first", op |-> NoOp, ret |-> Null, exc |-> Null]

Start ==
    /\ variant \in {"mem", "shelve"}
    /\ dict = NoDict
    /\ loaded = FALSE
    /\ held = [t \in Threads |-> << >>]
    /\ heap = [a \in Addr |-> EmptyDict]
    /\ db = EmptyDict
    /\ disk = EmptyDict
    /\ pc = [t \in Threads |-> "idle"]
    /\ op = [t \in Threads |-> NoOp]
    /\ rpc = [t \in Threads |-> Null]
    /\ loc = EmptyDict
    /\ ret = [t \in Threads |-> Null]
    /\ exc = [t \in Threads |-> Null]
    /\ wrote = [t \in Threads |-> NoWrite]
    /\ fresh = Resources
    /\ removed = {}
    /\ copied = NoCopy
    /\ atClose = NoSnap
    /\ twin = FirstTwin

Init == Start /\ watch = "none"

\* ------------------------------------------------------------------------
\* A call begins: the thread leaves "idle" with the method and arguments
\* ------------------------------------------------------------------------
Begin(t, o, p) ==
    /\ pc[t] = "idle"
    /\ op' = [op EXCEPT ![t] = o]
    /\ pc' = [pc EXCEPT ![t] = p]
    /\ UNCHANGED <<storeVars, rpc, loc, ret, exc>>

\* a call that is over before it reaches the lock: it reads and writes
\* nothing shared, so it commutes with every step of the other threads and
\* is taken while they are between calls
Immediate(t, o, e) ==
    /\ \A u \in Threads : pc[u] = "idle"
    /\ op' = [op EXCEPT ![t] = o]
    /\ pc' = [pc EXCEPT ![t] = "done"]
    /\ exc' = [exc EXCEPT ![t] = e]
    /\ UNCHANGED <<storeVars, held, rpc, loc, ret>>

\* `if not self._loaded: self._lazyOpen()`, then continue at `next`
CheckLoaded(t, here, next) ==
    /\ pc[t] = here
    /\ IF loaded
         THEN Goto(t, next) /\ UNCHANGED rpc
         ELSE Goto(t, "lo_acq") /\ rpc' = [rpc EXCEPT ![t] = next]
    /\ UNCHANGED <<storeVars, held, op, loc, ret, exc>>

\* faulty variant of the exit below: release() closes the try block instead
\* of standing in `finally`, an exception passes it by
Finally_skipped(t, here) ==
    /\ pc[t] = here
    /\ IF exc[t] = Null THEN release(t) ELSE UNCHANGED held
    /\ Goto(t, "done")
    /\ Install(dict, Del(loc, t), heap)
    /\ UNCHANGED <<variant, loaded, db, disk, op, rpc, ret, exc>>

\* the `finally: self._lock.release()` of a public method, and its return
Finally(t, here) ==
    /\ pc[t] = here
    /\ release(t)
    /\ Goto(t, "done")
    /\ Install(dict, Del(loc, t), heap)
    /\ UNCHANGED <<variant, loaded, db, disk, op, rpc, ret, exc>>

\* the caller takes the result; the thread is free for its next call
Return(t) ==
    /\ pc[t] = "done"
    /\ Goto(t, "idle")
    /\ op' = [op EXCEPT ![t] = NoOp]
    /\ ret' = [ret EXCEPT ![t] = Null]
    /\ exc' = [exc EXCEPT ![t] = Null]
    /\ UNCHANGED <<storeVars, held, rpc, loc>>

\* ------------------------------------------------------------------------
\* _lazyOpen
\* ------------------------------------------------------------------------
lazyOpen_acquire(t) ==
    /\ pc[t] = "lo_acq"
    /\ acquireWrite(t)
    /\ Goto(t, IF variant = "shelve" THEN "lo_test" ELSE "lo_dict")
    /\ UNCHANGED <<storeVars, op, rpc, loc, ret, exc>>

\* ShelvePropertyManager: `if self._loaded: return True`
lazyOpen_test(t) ==
    /\ pc[t] = "lo_test"
    /\ Goto(t, IF loaded THEN "lo_rel" ELSE "lo_dict")
    /\ UNCHANGED <<storeVars, held, op, rpc, loc, ret, exc>>

\* faulty variant of the open below: the shelf is opened as a new, empty
\* database
lazyOpen_dict_truncating(t) ==
    /\ pc[t] = "lo_dict"
    /\ IF variant = "shelve"
         THEN /\ Install([kind |-> "shelf"], loc, heap)
              /\ db' = EmptyDict
         ELSE /\ Install([kind |-> "dict", items |-> EmptyDict], loc, heap)
              /\ UNCHANGED db
    /\ Goto(t, "lo_loaded")
    /\ UNCHANGED <<variant, loaded, disk, held, op, rpc, ret, exc>>

\* `self._dict = {}`  /  `self._dict = shelve.open(self._storagePath)`
lazyOpen_dict(t) ==
    /\ pc[t] = "lo_dict"
    /\ IF variant = "shelve"
         THEN /\ Install([kind |-> "shelf"], loc, heap)
              /\ db' = disk
         ELSE /\ Install([kind |-> "dict", items |-> EmptyDict], loc, heap)
              /\ UNCHANGED db
    /\ Goto(t, "lo_loaded")
    /\ UNCHANGED <<variant, loaded, disk, held, op, rpc, ret, exc>>

\* `self._loaded = True`
lazyOpen_loaded(t) ==
    /\ pc[t] = "lo_loaded"
    /\ loaded' = TRUE
    /\ Goto(t, "lo_rel")
    /\ UNCHANGED <<variant, dict, heap, db, disk, held, op, rpc, loc, ret, exc>>

\* an exception raised in _lazyOpen leaves the calling method through its
\* `finally` too
lazyOpen_release(t) ==
    /\ pc[t] = "lo_rel"
    /\ release(t)
    /\ Goto(t, IF exc[t] = Null THEN rpc[t] ELSE Handler[rpc[t]])
    /\ rpc' = [rpc EXCEPT ![t] = Null]
    /\ UNCHANGED <<storeVars, op, loc, ret, exc>>

\* ------------------------------------------------------------------------
\* getProperty
\* ------------------------------------------------------------------------
\* `self._lock.acquireRead()`
getProperty_lock(t) == acquireRead(t)

getProperty_call(t) ==
    \E r \in Resources, n \in Names :
        /\ Begin(t, [NoOp EXCEPT !.name = "getProperty", !.normurl = r, !.propname = n],
                 "gp_chk")
        /\ getProperty_lock(t)

\* faulty variant of the test below: the read goes on without _lazyOpen
getProperty_lazy_omitted(t) ==
    /\ pc[t] = "gp_chk"
    /\ Goto(t, "gp_read")
    /\ UNCHANGED <<storeVars, held, op, rpc, loc, ret, exc>>

getProperty_lazy(t) == CheckLoaded(t, "gp_chk", "gp_read")

\* `if normurl not in self._dict: return None` ...
\* `return self._dict[normurl].get(propname)`
getProperty_result(r, n) ==
    IF r \notin Keys THEN Null
    ELSE IF n \in DOMAIN PropsOf(r) THEN PropsOf(r)[n] ELSE Null

getProperty_read(t) ==
    /\ pc[t] = "gp_read"
    /\ IF ~Usable
         THEN Raise(t, Unusable, "gp_rel") /\ UNCHANGED ret
         ELSE /\ ret' = [ret EXCEPT ![t] = getProperty_result(op[t].normurl, op[t].propname)]
              /\ Goto(t, "gp_rel")
              /\ UNCHANGED exc
    /\ UNCHANGED <<storeVars, held, op, rpc, loc>>

getProperty_release(t) == Finally(t, "gp_rel")


\* ------------------------------------------------------------------------
\* getProperties
\* ------------------------------------------------------------------------
\* `self._lock.acquireRead()`
getProperties_lock(t) == acquireRead(t)

getProperties_call(t) ==
    \E r \in Resources :
        /\ Begin(t, [NoOp EXCEPT !.name = "getProperties", !.normurl = r], "gps_chk")
        /\ getProperties_lock(t)

getProperties_lazy(t) == CheckLoaded(t, "gps_chk", "gps_read")

\* returnlist: the keys of self._dict[normurl], in no particular order
getProperties_result(r) == IF r \in Keys THEN DOMAIN PropsOf(r) ELSE {}

getProperties_read(t) ==
    /\ pc[t] = "gps_read"
    /\ IF ~Usable
         THEN Raise(t, Unusable, "gps_rel") /\ UNCHANGED ret
         ELSE /\ ret' = [ret EXCEPT ![t] = getProperties_result(op[t].normurl)]
              /\ Goto(t, "gps_rel")
              /\ UNCHANGED exc
    /\ UNCHANGED <<storeVars, held, op, rpc, loc>>

getProperties_release(t) == Finally(t, "gps_rel")

\* ------------------------------------------------------------------------
\* _sync: `pass` in PropertyManager, a locked flush in ShelvePropertyManager
\* ------------------------------------------------------------------------
\* `self._sync()` called at `here`, the method going on at `next`
CallSync(t, next) ==
    IF variant = "shelve"
      THEN Goto(t, "sy_acq") /\ rpc' = [rpc EXCEPT ![t] = next]
      ELSE Goto(t, next) /\ UNCHANGED rpc

sync_acquire(t) ==
    /\ pc[t] = "sy_acq"
    /\ acquireWrite(t)
    /\ Goto(t, "sy_sync")
    /\ UNCHANGED <<storeVars, op, rpc, loc, ret, exc>>

\* faulty variant of the flush below: the test of self._loaded is the
\* wrong way round, an open shelf is not synced
sync_flush_inverted(t) ==
    /\ pc[t] = "sy_sync"
    /\ IF ~loaded
         THEN IF IsShelf
                THEN disk' = db /\ Goto(t, "sy_rel") /\ UNCHANGED exc
                ELSE Raise(t, "AttributeError", "sy_rel") /\ UNCHANGED disk
         ELSE Goto(t, "sy_rel") /\ UNCHANGED <<disk, exc>>
    /\ UNCHANGED <<variant, dict, loaded, heap, db, held, op, rpc, loc, ret>>

\* `if self._loaded: self._dict.sync()`
sync_flush(t) ==
    /\ pc[t] = "sy_sync"
    /\ IF loaded
         THEN IF IsShelf
                THEN disk' = db /\ Goto(t, "sy_rel") /\ UNCHANGED exc
                ELSE Raise(t, "AttributeError", "sy_rel") /\ UNCHANGED disk
         ELSE Goto(t, "sy_rel") /\ UNCHANGED <<disk, exc>>
    /\ UNCHANGED <<variant, dict, loaded, heap, db, held, op, rpc, loc, ret>>

sync_release(t) ==
    /\ pc[t] = "sy_rel"
    /\ release(t)
    /\ Goto(t, rpc[t])
    /\ rpc' = [rpc EXCEPT ![t] = Null]
    /\ UNCHANGED <<storeVars, op, loc, ret, exc>>

\* ------------------------------------------------------------------------
\* the three statements that change one property dictionary
\* ------------------------------------------------------------------------
\* `locatordict = self._dict[normurl]`: the dict hands out the stored object,
\* the shelf a fresh unpickled copy; `locatordict = {}` is a fresh object
FetchStored(t, r) ==
    IF IsDict
      THEN Install(dict, Put(loc, t, dict.items[r]), heap)
      ELSE Install(dict, Put(loc, t, NewAddr), [heap EXCEPT ![NewAddr] = db[r]])
FetchNew(t) ==
    Install(dict, Put(loc, t, NewAddr), [heap EXCEPT ![NewAddr] = EmptyDict])

\* faulty variant of the re-assignment below: it is left out
StoreBack_omitted(t, r) == UNCHANGED <<dict, loc, heap, db>>

\* `self._dict[normurl] = locatordict`: the dict keeps the reference, the
\* shelf pickles the value
StoreBack(t, r) ==
    IF IsDict
      THEN /\ Install([dict EXCEPT !.items = Put(@, r, loc[t])], loc, heap)
           /\ UNCHANGED db
      ELSE /\ db' = Put(db, r, heap[loc[t]])
           /\ UNCHANGED <<dict, loc, heap>>

\* ------------------------------------------------------------------------
\* writeProperty
\* ------------------------------------------------------------------------
\* `normurl.startswith("/")`
StartsWithSlash(u) == Len(u) >= 1 /\ u[1] = "/"
\* the three assert statements
writeProperty_asserts(o) ==
    /\ o.normurl # << >> /\ StartsWithSlash(o.normurl)
    /\ o.propname # ""
    /\ o.propertyvalue # Null

\* faulty variant of the entry below: dryRun is not looked at
writeProperty_entry_wet(o) ==
    IF ~writeProperty_asserts(o) THEN "fault" ELSE "wp_chk"

\* faulty variant of the asserts above: the value is not looked at
writeProperty_entry_unasserted(o) ==
    IF o.normurl = << >> \/ ~StartsWithSlash(o.normurl) \/ o.propname = "" THEN "fault"
    ELSE IF o.dryRun THEN "done"
    ELSE "wp_chk"

\* how far the call gets before the lock: a failed assert, `if dryRun: return`
writeProperty_entry(o) ==
    IF ~writeProperty_asserts(o) THEN "fault"
    ELSE IF o.dryRun THEN "done"
    ELSE "wp_chk"

\* faulty variant of the lock below: the writer takes the lock in read mode
writeProperty_lock_shared(t) == acquireRead(t)

\* `self._lock.acquireWrite()`
writeProperty_lock(t) == acquireWrite(t)

WriteArgs ==
    {[NoOp EXCEPT !.name = "writeProperty", !.normurl = r, !.propname = n,
                  !.propertyvalue = v, !.dryRun = d] :
        r \in Resources, n \in Names, v \in Values, d \in BOOLEAN}
    \cup {[NoOp EXCEPT !.name = "writeProperty", !.normurl = r, !.propname = "p",
                       !.propertyvalue = "v1", !.dryRun = d] :
            r \in Malformed, d \in BOOLEAN}
    \cup {[NoOp EXCEPT !.name = "writeProperty", !.normurl = <<"/", "a">>,
                       !.propname = "", !.propertyvalue = "v1", !.dryRun = d] :
            d \in BOOLEAN}
    \cup {[NoOp EXCEPT !.name = "writeProperty", !.normurl = <<"/", "a">>,
                       !.propname = "p", !.dryRun = d] : d \in BOOLEAN}

writeProperty_call(t) ==
    \E o \in WriteArgs :
        IF writeProperty_entry(o) = "fault" THEN Immediate(t, o, "AssertionError")
        ELSE IF writeProperty_entry(o) = "done" THEN Immediate(t, o, Null)
        ELSE Begin(t, o, writeProperty_entry(o)) /\ writeProperty_lock(t)

\* faulty variant of the test below: _lazyOpen is called without testing
\* self._loaded
writeProperty_lazy_always(t) ==
    /\ pc[t] = "wp_chk"
    /\ Goto(t, "lo_acq")
    /\ rpc' = [rpc EXCEPT ![t] = "wp_fetch"]
    /\ UNCHANGED <<storeVars, held, op, loc, ret, exc>>

writeProperty_lazy(t) == CheckLoaded(t, "wp_chk", "wp_fetch")

\* `if normurl in self._dict: locatordict = self._dict[normurl]`
\* `else: locatordict = {}`
writeProperty_fetch(t) ==
    /\ pc[t] = "wp_fetch"
    /\ IF ~Usable
         THEN Raise(t, Unusable, "wp_rel") /\ UNCHANGED <<dict, loc, heap>>
         ELSE /\ IF op[t].normurl \in Keys THEN FetchStored(t, op[t].normurl)
                                           ELSE FetchNew(t)
              /\ Goto(t, "wp_set")
              /\ UNCHANGED exc
    /\ UNCHANGED <<variant, loaded, db, disk, held, op, rpc, ret>>

\* faulty variant of the assignment below: locatordict is made anew with
\* the one property
writeProperty_set_alone(t) ==
    /\ pc[t] = "wp_set"
    /\ heap' = [heap EXCEPT ![loc[t]] = Put(EmptyDict, op[t].propname, op[t].propertyvalue)]
    /\ Goto(t, "wp_store")
    /\ UNCHANGED <<variant, dict, loaded, db, disk, held, op, rpc, loc, ret, exc>>

\* `locatordict[propname] = propertyvalue`
writeProperty_set(t) ==
    /\ pc[t] = "wp_set"
    /\ heap' = [heap EXCEPT ![loc[t]] = Put(@, op[t].propname, op[t].propertyvalue)]
    /\ Goto(t, "wp_store")
    /\ UNCHANGED <<variant, dict, loaded, db, disk, held, op, rpc, loc, ret, exc>>

\* `self._dict[normurl] = locatordict`, then `self._sync()`
writeProperty_store(t) ==
    /\ pc[t] = "wp_store"
    /\ IF ~Usable
         THEN Raise(t, Unusable, "wp_rel") /\ UNCHANGED <<dict, loc, heap, db, rpc>>
         ELSE /\ StoreBack(t, op[t].normurl)
              /\ CallSync(t, "wp_rel")
              /\ UNCHANGED exc
    /\ UNCHANGED <<variant, loaded, disk, held, op, ret>>

writeProperty_release(t) == Finally(t, "wp_rel")

\* ------------------------------------------------------------------------
\* removeProperty
\* ------------------------------------------------------------------------
\* `if dryRun: return`
removeProperty_entry(o) == IF o.dryRun THEN "done" ELSE "rp_chk"

\* `self._lock.acquireWrite()`
removeProperty_lock(t) == acquireWrite(t)

removeProperty_call(t) ==
    \E r \in Resources, n \in Names, d \in BOOLEAN :
        LET o == [NoOp EXCEPT !.name = "removeProperty", !.normurl = r,
                              !.propname = n, !.dryRun = d]
        IN  IF removeProperty_entry(o) = "done" THEN Immediate(t, o, Null)
            ELSE Begin(t, o, removeProperty_entry(o)) /\ removeProperty_lock(t)

removeProperty_lazy(t) == CheckLoaded(t, "rp_chk", "rp_fetch")

\* `if normurl in self._dict:`
removeProperty_known(r) == r \in Keys
\* faulty variant of the membership test below: the property is taken to
\* be there
removeProperty_has_assumed(t, n) == TRUE
\* `if propname in locatordict:`
removeProperty_has(t, n) == n \in DOMAIN heap'[loc'[t]]

\* `if normurl in self._dict: locatordict = self._dict[normurl]`
\* `if propname in locatordict:`
removeProperty_fetch(t) ==
    /\ pc[t] = "rp_fetch"
    /\ IF ~Usable
         THEN Raise(t, Unusable, "rp_rel") /\ UNCHANGED <<dict, loc, heap>>
         ELSE /\ IF removeProperty_known(op[t].normurl)
                   THEN /\ FetchStored(t, op[t].normurl)
                        /\ Goto(t, IF removeProperty_has(t, op[t].propname)
                                     THEN "rp_del" ELSE "rp_rel")
                   ELSE Goto(t, "rp_rel") /\ UNCHANGED <<dict, loc, heap>>
              /\ UNCHANGED exc
    /\ UNCHANGED <<variant, loaded, db, disk, held, op, rpc, ret>>

\* `del locatordict[propname]`
removeProperty_del(t) ==
    /\ pc[t] = "rp_del"
    /\ IF op[t].propname \in DOMAIN heap[loc[t]]
         THEN /\ heap' = [heap EXCEPT ![loc[t]] = Del(@, op[t].propname)]
              /\ Goto(t, "rp_store")
              /\ UNCHANGED exc
         ELSE Raise(t, "KeyError", "rp_rel") /\ UNCHANGED heap
    /\ UNCHANGED <<variant, dict, loaded, db, disk, held, op, rpc, loc, ret>>

\* faulty variant of the re-assignment below: a locatordict left empty is
\* not stored, its key is deleted
removeProperty_store_pruning(t) ==
    /\ pc[t] = "rp_store"
    /\ IF ~Usable
         THEN Raise(t, Unusable, "rp_rel") /\ UNCHANGED <<dict, loc, heap, db, rpc>>
         ELSE /\ IF DOMAIN heap[loc[t]] # {}
                   THEN StoreBack(t, op[t].normurl)
                   ELSE IF IsDict
                     THEN /\ Install([dict EXCEPT !.items = Del(@, op[t].normurl)],
                                     loc, heap)
                          /\ UNCHANGED db
                     ELSE /\ db' = Del(db, op[t].normurl)
                          /\ UNCHANGED <<dict, loc, heap>>
              /\ CallSync(t, "rp_rel")
              /\ UNCHANGED exc
    /\ UNCHANGED <<variant, loaded, disk, held, op, ret>>

\* faulty variant of the re-assignment below: it is left out, the change is
\* made to locatordict only
removeProperty_store_omitted(t) ==
    /\ pc[t] = "rp_store"
    /\ IF ~Usable
         THEN Raise(t, Unusable, "rp_rel") /\ UNCHANGED rpc
         ELSE CallSync(t, "rp_rel") /\ UNCHANGED exc
    /\ UNCHANGED <<storeVars, held, op, loc, ret>>

\* `self._dict[normurl] = locatordict`, then `self._sync()`
removeProperty_store(t) ==
    /\ pc[t] = "rp_store"
    /\ IF ~Usable
         THEN Raise(t, Unusable, "rp_rel") /\ UNCHANGED <<dict, loc, heap, db, rpc>>
         ELSE /\ StoreBack(t, op[t].normurl)
              /\ CallSync(t, "rp_rel")
              /\ UNCHANGED exc
    /\ UNCHANGED <<variant, loaded, disk, held, op, ret>>

removeProperty_release(t) == Finally(t, "rp_rel")

\* ------------------------------------------------------------------------
\* removeProperties
\* ------------------------------------------------------------------------
\* `self._lock.acquireWrite()`
removeProperties_lock(t) == acquireWrite(t)

removeProperties_call(t) ==
    \E r \in Resources :
        /\ Begin(t, [NoOp EXCEPT !.name = "removeProperties", !.normurl = r], "rps_chk")
        /\ removeProperties_lock(t)

removeProperties_lazy(t) == CheckLoaded(t, "rps_chk", "rps_del")

\* faulty variant of the deletion below: the key is kept, with an empty
\* property dictionary
DeleteKey_emptied(r) ==
    IF IsDict
      THEN /\ Install([dict EXCEPT !.items = Put(@, r, NewAddr)], loc,
                      [heap EXCEPT ![NewAddr] = EmptyDict])
           /\ UNCHANGED db
      ELSE /\ db' = Put(db, r, EmptyDict)
           /\ UNCHANGED <<dict, loc, heap>>

\* `del self._dict[normurl]`
DeleteKey(r) ==
    IF IsDict
      THEN /\ Install([dict EXCEPT !.items = Del(@, r)], loc, heap)
           /\ UNCHANGED db
      ELSE /\ db' = Del(db, r)
           /\ UNCHANGED <<dict, loc, heap>>

\* `if normurl in self._dict: del self._dict[normurl]; self._sync()`
removeProperties_del(t) ==
    /\ pc[t] = "rps_del"
    /\ IF ~Usable
         THEN Raise(t, Unusable, "rps_rel") /\ UNCHANGED <<dict, loc, heap, db, rpc>>
         ELSE /\ IF op[t].normurl \in Keys
                   THEN DeleteKey(op[t].normurl) /\ CallSync(t, "rps_rel")
                   ELSE Goto(t, "rps_rel") /\ UNCHANGED <<dict, loc, heap, db, rpc>>
              /\ UNCHANGED exc
    /\ UNCHANGED <<variant, loaded, disk, held, op, ret>>

removeProperties_release(t) == Finally(t, "rps_rel")

\* ------------------------------------------------------------------------
\* copyProperties
\* ------------------------------------------------------------------------
\* `self._lock.acquireWrite()`
copyProperties_lock(t) == acquireWrite(t)

copyProperties_call(t) ==
    \E s \in Resources, d \in Resources :
        /\ Begin(t, [NoOp EXCEPT !.name = "copyProperties", !.normurl = s, !.desturl = d],
                 "cp_chk")
        /\ copyProperties_lock(t)

copyProperties_lazy(t) == CheckLoaded(t, "cp_chk", "cp_copy")

\* faulty variant of the copy below: `.copy()` is left out, the dict keeps
\* one object under both keys
CopyEntry_shared(s, d) ==
    IF IsDict
      THEN /\ Install([dict EXCEPT !.items = Put(@, d, dict.items[s])], loc, heap)
           /\ UNCHANGED db
      ELSE /\ db' = Put(db, d, db[s])
           /\ UNCHANGED <<dict, loc, heap>>

\* `self._dict[desturl] = self._dict[srcurl].copy()`: the copy is a new
\* object holding the same items
CopyEntry(s, d) ==
    IF IsDict
      THEN /\ Install([dict EXCEPT !.items = Put(@, d, NewAddr)], loc,
                      [heap EXCEPT ![NewAddr] = heap[dict.items[s]]])
           /\ UNCHANGED db
      ELSE /\ db' = Put(db, d, db[s])
           /\ UNCHANGED <<dict, loc, heap>>

\* `if srcurl in self._dict: ...; self._sync()`
copyProperties_copy(t) ==
    /\ pc[t] = "cp_copy"
    /\ IF ~Usable
         THEN Raise(t, Unusable, "cp_rel") /\ UNCHANGED <<dict, loc, heap, db, rpc>>
         ELSE /\ IF op[t].normurl \in Keys
                   THEN CopyEntry(op[t].normurl, op[t].desturl) /\ CallSync(t, "cp_rel")
                   ELSE Goto(t, "cp_rel") /\ UNCHANGED <<dict, loc, heap, db, rpc>>
              /\ UNCHANGED exc
    /\ UNCHANGED <<variant, loaded, disk, held, op, ret>>

copyProperties_release(t) == Finally(t, "cp_rel")

\* ------------------------------------------------------------------------
\* _close
\* ------------------------------------------------------------------------
\* `self._lock.acquireWrite()`
close_lock(t) == acquireWrite(t)

close_call(t) ==
    /\ Begin(t, [NoOp EXCEPT !.name = "close"],
             IF variant = "shelve" THEN "cl_test" ELSE "cl_dict")
    /\ close_lock(t)

\* faulty variant of the guard below: the shelf is closed without testing
\* self._loaded
close_guard_absent == TRUE

\* ShelvePropertyManager: `if self._loaded:` guards the three statements
close_guard == IF variant = "shelve" THEN loaded ELSE TRUE

close_test(t) ==
    /\ pc[t] = "cl_test"
    /\ Goto(t, IF close_guard THEN "cl_close" ELSE "cl_rel")
    /\ UNCHANGED <<storeVars, held, op, rpc, loc, ret, exc>>

\* `self._dict.close()`: the shelf writes what is pending and closes
close_shelf(t) ==
    /\ pc[t] = "cl_close"
    /\ IF IsShelf
         THEN /\ disk' = db
              /\ db' = EmptyDict
              /\ dict' = [kind |-> "closed"]
              /\ Goto(t, "cl_dict")
              /\ UNCHANGED exc
         ELSE Raise(t, "AttributeError", "cl_rel") /\ UNCHANGED <<dict, db, disk>>
    /\ UNCHANGED <<variant, loaded, heap, held, op, rpc, loc, ret>>

\* `self._dict = None`
close_dict(t) ==
    /\ pc[t] = "cl_dict"
    /\ Install(NoDict, loc, heap)
    /\ Goto(t, "cl_loaded")
    /\ UNCHANGED <<variant, loaded, db, disk, held, op, rpc, ret, exc>>

\* `self._loaded = False`
close_loaded(t) ==
    /\ pc[t] = "cl_loaded"
    /\ loaded' = FALSE
    /\ Goto(t, "cl_rel")
    /\ UNCHANGED <<variant, dict, heap, db, disk, held, op, rpc, loc, ret, exc>>

close_release(t) == Finally(t, "cl_rel")

\* ------------------------------------------------------------------------
\* What a caller can observe, and the history of the calls
\* ------------------------------------------------------------------------
\* the mapping the next read works on: the open store, or what _lazyOpen
\* will attach (nothing for the dict, the file for the shelf)
ObservableDict ==
    IF loaded /\ Usable THEN [r \in Keys |-> PropsOf(r)]
    ELSE IF variant = "shelve" THEN disk
    ELSE EmptyDict
\* what getProperty(r, n) would return
Lookup(m, r, n) ==
    IF r \in DOMAIN m /\ n \in DOMAIN m[r] THEN m[r][n] ELSE Null
\* what getProperties(r) would return
Listing(m, r) == IF r \in DOMAIN m THEN DOMAIN m[r] ELSE {}
Observable == [r \in Resources |-> [n \in Names |-> Lookup(ObservableDict, r, n)]]

\* thread t enters a method and gets its lock / leaves it through `finally`
Calling(t) == pc[t] = "idle" /\ pc'[t] \notin {"idle", "done"}
Finishing(t) == pc[t] \notin {"idle", "done"} /\ pc'[t] = "done"
\* the call o is one that may change the properties of r / property n of r
Targets(o, r) ==
    \/ o.name \in {"writeProperty", "removeProperty", "removeProperties"} /\ o.normurl = r
    \/ o.name = "copyProperties" /\ o.desturl = r
TargetsProperty(o, r, n) ==
    \/ o.name \in {"writeProperty", "removeProperty"} /\ o.normurl = r /\ o.propname = n
    \/ o.name = "removeProperties" /\ o.normurl = r
    \/ o.name = "copyProperties" /\ o.desturl = r
Mutator(o) ==
    o.name \in {"writeProperty", "removeProperty", "removeProperties", "copyProperties"}

WroteNext(t) ==
    [u \in Threads |->
        IF u = t /\ Finishing(t) /\ op[t].name = "writeProperty" /\ exc[t] = Null
          THEN [url |-> op[t].normurl, name |-> op[t].propname,
                value |-> op[t].propertyvalue]
        ELSE IF /\ Calling(t)
                /\ wrote[u] # NoWrite
                /\ \/ u = t
                   \/ TargetsProperty(op'[t], wrote[u].url, wrote[u].name)
                   \/ op'[t].name = "close" /\ watch = "write"
          THEN NoWrite
        ELSE wrote[u]]

FreshNext(t) ==
    IF Calling(t) THEN {r \in fresh : ~Targets(op'[t], r) \/ op'[t].name = "removeProperties"
                                      \/ op'[t].name = "removeProperty"}
    ELSE fresh

RemovedNext(t) ==
    IF Finishing(t) /\ op[t].name = "removeProperties" /\ exc[t] = Null
      THEN removed \cup {op[t].normurl}
    ELSE IF Calling(t) /\ op'[t].name \in {"writeProperty", "copyProperties"}
      THEN {r \in removed : ~Targets(op'[t], r)}
    ELSE removed

CopiedNext(t) ==
    IF Calling(t) /\ op'[t].name = "copyProperties"
      THEN IF op'[t].normurl \in DOMAIN ObservableDict
             THEN [src |-> op'[t].normurl, dst |-> op'[t].desturl,
                   props |-> ObservableDict[op'[t].normurl], by |-> t,
                   srcOk |-> TRUE, dstOk |-> TRUE, done |-> FALSE]
             ELSE NoCopy
    ELSE IF Calling(t) /\ copied # NoCopy
      THEN LET lost == copied.by = t \/ (op'[t].name = "close" /\ variant = "mem")
               s == copied.srcOk /\ ~lost /\ ~Targets(op'[t], copied.src)
               d == copied.dstOk /\ ~lost /\ ~Targets(op'[t], copied.dst)
           IN  IF s \/ d THEN [copied EXCEPT !.srcOk = s, !.dstOk = d] ELSE NoCopy
    ELSE IF Finishing(t) /\ copied # NoCopy /\ copied.by = t /\ ~copied.done
      THEN IF exc[t] = Null THEN [copied EXCEPT !.done = TRUE] ELSE NoCopy
    ELSE copied

AtCloseNext(t) ==
    IF pc[t] = "cl_close" /\ pc'[t] = "cl_dict" THEN [valid |-> TRUE, content |-> db]
    ELSE IF Calling(t) /\ Mutator(op'[t]) THEN NoSnap
    ELSE atClose

History(t) ==
    /\ watch' = watch
    /\ wrote' = IF watch \in {"write", "close"} THEN WroteNext(t) ELSE wrote
    /\ fresh' = IF watch = "fresh" THEN FreshNext(t) ELSE fresh
    /\ removed' = IF watch = "remove" THEN RemovedNext(t) ELSE removed
    /\ copied' = IF watch = "copy" THEN CopiedNext(t) ELSE copied
    /\ atClose' = IF watch = "close" THEN AtCloseNext(t) ELSE atClose
    /\ twin' = twin

\* no finished call is waiting to be taken
Quiet == \A u \in Threads : pc[u] # "done"

Step(t) ==
    \/ getProperties_call(t)
    \/ getProperties_lazy(t)
    \/ getProperties_read(t)
    \/ getProperties_release(t)
    \/ getProperty_call(t)
    \/ getProperty_lazy(t)
    \/ getProperty_read(t)
    \/ getProperty_release(t)
    \/ writeProperty_call(t)
    \/ writeProperty_lazy(t)
    \/ writeProperty_fetch(t)
    \/ writeProperty_set(t)
    \/ writeProperty_store(t)
    \/ writeProperty_release(t)
    \/ removeProperty_call(t)
    \/ removeProperty_lazy(t)
    \/ removeProperty_fetch(t)
    \/ removeProperty_del(t)
    \/ removeProperty_store(t)
    \/ removeProperty_release(t)
    \/ removeProperties_call(t)
    \/ removeProperties_lazy(t)
    \/ removeProperties_del(t)
    \/ removeProperties_release(t)
    \/ copyProperties_call(t)
    \/ copyProperties_lazy(t)
    \/ copyProperties_copy(t)
    \/ copyProperties_release(t)
    \/ close_call(t)
    \/ close_test(t)
    \/ close_shelf(t)
    \/ close_dict(t)
    \/ close_loaded(t)
    \/ close_release(t)
    \/ lazyOpen_acquire(t)
    \/ lazyOpen_test(t)
    \/ lazyOpen_dict(t)
    \/ lazyOpen_loaded(t)
    \/ lazyOpen_release(t)
    \/ sync_acquire(t)
    \/ sync_flush(t)
    \/ sync_release(t)

Next ==
    \E t \in Threads :
        \/ Return(t) /\ UNCHANGED histVars
        \/ Quiet /\ Step(t) /\ History(t)

Spec == Init /\ [][Next]_vars
InitWrite == Start /\ watch = "write"
InitFresh == Start /\ watch = "fresh"
InitRemove == Start /\ watch = "remove"
InitCopy == Start /\ watch = "copy"
InitClose == Start /\ watch = "close" /\ variant = "shelve"

SpecWrite == InitWrite /\ [][Next]_vars
SpecFresh == InitFresh /\ [][Next]_vars
SpecRemove == InitRemove /\ [][Next]_vars
SpecCopy == InitCopy /\ [][Next]_vars
SpecClose == InitClose /\ [][Next]_vars

\* ------------------------------------------------------------------------
\* _dump and __del__ (which runs _check, then _close), called by a thread
\* ------------------------------------------------------------------------
dump_call(t) ==
    /\ Begin(t, [NoOp EXCEPT !.name = "_dump"], "dump_chk")
    /\ UNCHANGED held

\* `if not self._loaded: self._lazyOpen()`
dump_test(t) ==
    /\ pc[t] = "dump_chk"
    /\ IF loaded
         THEN Goto(t, "dump_items") /\ UNCHANGED rpc
         ELSE Goto(t, "lo_acq") /\ rpc' = [rpc EXCEPT ![t] = "dump_ret"]
    /\ UNCHANGED <<storeVars, held, op, loc, ret, exc>>

\* `if self._verbose >= 2: return`, self._verbose being 2
dump_return(t) ==
    /\ pc[t] = "dump_ret"
    /\ Goto(t, "done")
    /\ UNCHANGED <<storeVars, held, op, rpc, loc, ret, exc>>

\* `for k, v in self._dict.items(): ...` printed; what it raises is caught
dump_items(t) ==
    /\ pc[t] = "dump_items"
    /\ Goto(t, "done")
    /\ UNCHANGED <<storeVars, held, op, rpc, loc, ret, exc>>

\* the object is collected: no other thread is in a method of it
del_call(t) ==
    /\ \A u \in Threads : pc[u] = "idle"
    /\ Begin(t, [NoOp EXCEPT !.name = "__del__"], "del_chk")
    /\ UNCHANGED held

\* _check: `if not self._loaded: return True`
check_loaded(t) ==
    /\ pc[t] = "del_chk"
    /\ Goto(t, IF loaded THEN "del_items" ELSE "del_close")
    /\ UNCHANGED <<storeVars, held, op, rpc, loc, ret, exc>>

\* _check: `for k, v in self._dict.items(): ...`; what it raises is caught
check_items(t) ==
    /\ pc[t] = "del_items"
    /\ Goto(t, "del_close")
    /\ UNCHANGED <<storeVars, held, op, rpc, loc, ret, exc>>

\* `self._close()`
del_close(t) ==
    /\ pc[t] = "del_close"
    /\ close_lock(t)
    /\ Goto(t, IF variant = "shelve" THEN "cl_test" ELSE "cl_dict")
    /\ UNCHANGED <<storeVars, op, rpc, loc, ret, exc>>

DiagStep(t) ==
    \/ dump_call(t)
    \/ dump_test(t)
    \/ dump_return(t)
    \/ dump_items(t)
    \/ del_call(t)
    \/ check_loaded(t)
    \/ check_items(t)
    \/ del_close(t)

\* while __del__ runs no method is called
NextDiag ==
    \E t \in Threads :
        \/ Return(t) /\ UNCHANGED histVars
        \/ /\ Quiet /\ Step(t) /\ History(t)
           /\ pc[t] = "idle" => \A u \in Threads : op[u].name # "__del__"
        \/ /\ Quiet /\ DiagStep(t) /\ History(t)
           /\ pc[t] = "idle" => \A u \in Threads : op[u].name # "__del__"

InitDiag == Start /\ watch = "diag"
SpecDiag == InitDiag /\ [][NextDiag]_vars

\* ------------------------------------------------------------------------
\* The shelf may fail: shelve.open(), the access to a key, sync() and
\* close() raise what the dbm file raises, and change nothing.  One failure
\* is followed in a behaviour, until the calls that are running have returned.
\* ------------------------------------------------------------------------
backend_raises(t) ==
    /\ variant = "shelve"
    /\ watch = "fault"
    /\ pc[t] \in DOMAIN Handler
    /\ pc[t] = "sy_sync" => loaded
    /\ pc[t] # "lo_dict" => IsShelf
    /\ Raise(t, "IOError", Handler[pc[t]])
    /\ UNCHANGED <<storeVars, held, op, rpc, loc, ret>>

NextFault ==
    \E t \in Threads :
        \/ Return(t) /\ UNCHANGED histVars
        \/ /\ Quiet /\ Step(t) /\ History(t)
           /\ watch = "faulted" => pc[t] # "idle"
        \/ /\ Quiet /\ backend_raises(t)
           /\ watch' = "faulted"
           /\ UNCHANGED <<wrote, fresh, removed, copied, atClose, twin>>

InitFault == Start /\ watch = "fault"
SpecFault == InitFault /\ [][NextFault]_vars

\* ------------------------------------------------------------------------
\* Two stores, one of each class, given the same calls by one caller: the
\* call runs on one store, the stores change places, the call runs on the
\* other, and so on.  No close is called.
\* ------------------------------------------------------------------------
\* the caller takes the result and turns to the other store
SwapReturn(t) ==
    /\ pc[t] = "done"
    /\ Goto(t, "idle")
    /\ variant' = twin.variant /\ dict' = twin.dict /\ loaded' = twin.loaded
    /\ heap' = twin.heap /\ db' = twin.db /\ disk' = twin.disk
    /\ twin' = [variant |-> variant, dict |-> dict, loaded |-> loaded,
                heap |-> heap, db |-> db, disk |-> disk,
                turn |-> IF twin.turn = "first" THEN "second" ELSE "first",
                op |-> IF twin.turn = "first" THEN op[t] ELSE NoOp,
                ret |-> IF twin.turn = "first" THEN ret[t] ELSE Null,
                exc |-> IF twin.turn = "first" THEN exc[t] ELSE Null]
    /\ op' = [op EXCEPT ![t] = NoOp]
    /\ ret' = [ret EXCEPT ![t] = Null]
    /\ exc' = [exc EXCEPT ![t] = Null]
    /\ UNCHANGED <<held, rpc, loc, watch, wrote, fresh, removed, copied, atClose>>

\* the second store is given the call the first one was given
SameCall(t) ==
    Calling(t) \/ (pc[t] = "idle" /\ pc'[t] = "done") =>
        /\ op'[t].name # "close"
        /\ twin.turn = "second" => op'[t] = twin.op

NextPair ==
    \/ SwapReturn(ThreadList[1])
    \/ Quiet /\ Step(ThreadList[1]) /\ History(ThreadList[1]) /\ SameCall(ThreadList[1])

InitPair == Start /\ watch = "pair" /\ variant = "mem"
SpecPair == InitPair /\ [][NextPair]_vars

\* ------------------------------------------------------------------------
\* Claims
\* ------------------------------------------------------------------------
\* the call thread t is in, also in the step that begins it
Current(t) == IF pc[t] = "idle" THEN op'[t] ELSE op[t]
\* thread t takes a step of a call of method m
StepOf(t, m) == pc'[t] # pc[t] /\ pc[t] # "done" /\ Current(t).name = m
Returned(t, m) == pc[t] = "done" /\ op[t].name = m

\* C1: once a writeProperty(R, p, v) that was not a dry run has returned, and
\* until a writeProperty/removeProperty of (R, p), a removeProperties(R), a
\* copyProperties(_, R) or a close is called, every getProperty(R, p) returns
\* v without raising and every getProperties(R) lists p.
C1_ReadsSeeTheWrite ==
    \A t \in Threads, u \in Threads :
        (pc[t] = "done" /\ wrote[u] # NoWrite /\ op[t].normurl = wrote[u].url) =>
            /\ (op[t].name = "getProperty" /\ op[t].propname = wrote[u].name) =>
                   (exc[t] = Null /\ ret[t] = wrote[u].value)
            /\ op[t].name = "getProperties" =>
                   (exc[t] = Null /\ wrote[u].name \in ret[t])

C1_Witness ==
    \E t \in Threads, u \in Threads :
        /\ Returned(t, "getProperty")
        /\ wrote[u] = [url |-> op[t].normurl, name |-> op[t].propname, value |-> "v2"]
        /\ ret[t] = "v2"
        /\ variant = "shelve"

\* C2: for a resource that no writeProperty and no copyProperties has ever
\* targeted, getProperty returns None and getProperties returns an empty
\* list, and neither raises, the first access to a closed store included.
C2_UnknownResourceReadsEmpty ==
    \A t \in Threads :
        (pc[t] = "done" /\ op[t].normurl \in fresh) =>
            /\ op[t].name = "getProperty" => (exc[t] = Null /\ ret[t] = Null)
            /\ op[t].name = "getProperties" => (exc[t] = Null /\ ret[t] = {})

C2_Witness ==
    \E t \in Threads :
        /\ Returned(t, "getProperties")
        /\ fresh = Resources
        /\ exc[t] = Null /\ ret[t] = {}
        /\ loaded

\* C3: a step of removeProperty(R, p) taken while the store has no property
\* p for R (R unknown, or known without p) changes nothing a read can see
\* and raises nothing.
C3_RemoveAbsentAct ==
    \A t \in Threads :
        (/\ StepOf(t, "removeProperty")
         /\ Lookup(ObservableDict, Current(t).normurl, Current(t).propname) = Null)
        => (Observable' = Observable /\ exc'[t] = Null)
C3_RemoveAbsentIsNoOp == [][C3_RemoveAbsentAct]_vars

C3_Witness ==
    \E t \in Threads :
        /\ pc[t] = "rp_rel" /\ op[t].name = "removeProperty"
        /\ t \notin DOMAIN loc
        /\ op[t].normurl \notin Keys
        /\ loaded /\ exc[t] = Null
        /\ Keys # {}

\* C4: when removeProperties(R) returns, R is no key of the store; from then
\* on, until R is targeted by a writeProperty or a copyProperties,
\* getProperties(R) is empty and getProperty(R, n) is None for every n; and
\* if R was no key, no step of the call changes the store.
C4_RemovedState ==
    \A t \in Threads :
        /\ Returned(t, "removeProperties") =>
               (exc[t] = Null /\ op[t].normurl \notin DOMAIN ObservableDict)
        /\ (pc[t] = "done" /\ op[t].normurl \in removed) =>
               /\ op[t].name = "getProperty" => (exc[t] = Null /\ ret[t] = Null)
               /\ op[t].name = "getProperties" => (exc[t] = Null /\ ret[t] = {})
C4_RemoveAbsentAct ==
    \A t \in Threads :
        (StepOf(t, "removeProperties") /\ Current(t).normurl \notin DOMAIN ObservableDict)
        => ObservableDict' = ObservableDict
C4_RemovePropertiesRemoves == [] C4_RemovedState /\ [][C4_RemoveAbsentAct]_vars

C4_Witness ==
    \E t \in Threads :
        /\ Returned(t, "getProperties")
        /\ op[t].normurl \in removed
        /\ ret[t] = {}
        /\ ObservableDict # EmptyDict

\* C5: after copyProperties(S, D) with S present, D reads as S did when the
\* copy was made, until D is targeted by another call, whatever is done to S
\* in between; S reads as it did, until S is targeted, whatever is done to
\* D; with S absent no step of the call changes the store.
C5_CopiedState ==
    \A t \in Threads :
        /\ (Returned(t, "copyProperties") /\ copied.done /\ copied.by = t) =>
               /\ copied.dst \in DOMAIN ObservableDict
               /\ ObservableDict[copied.dst] = copied.props
        /\ (pc[t] = "done" /\ copied.done /\
              \/ (copied.dstOk /\ op[t].normurl = copied.dst)
              \/ (copied.srcOk /\ op[t].normurl = copied.src)) =>
               /\ op[t].name = "getProperty" =>
                      /\ exc[t] = Null
                      /\ ret[t] = IF op[t].propname \in DOMAIN copied.props
                                    THEN copied.props[op[t].propname] ELSE Null
               /\ op[t].name = "getProperties" =>
                      (exc[t] = Null /\ ret[t] = DOMAIN copied.props)
C5_CopyAbsentAct ==
    \A t \in Threads :
        (StepOf(t, "copyProperties") /\ Current(t).normurl \notin DOMAIN ObservableDict)
        => ObservableDict' = ObservableDict
C5_CopyIsIndependent == [] C5_CopiedState /\ [][C5_CopyAbsentAct]_vars

\* D is read after S was changed: D still has what was copied, S has not
C5_Witness ==
    \E t \in Threads :
        /\ Returned(t, "getProperties")
        /\ copied.done /\ copied.dstOk /\ ~copied.srcOk
        /\ op[t].normurl = copied.dst /\ copied.src # copied.dst
        /\ ret[t] = DOMAIN copied.props
        /\ copied.src \in DOMAIN ObservableDict
        /\ ObservableDict[copied.src] # copied.props
        /\ variant = "mem"

\* C6: no step of a writeProperty or removeProperty called with dryRun=True
\* changes the mapping, the loaded flag, the lock or the shelve file.
C6_DryRunAct ==
    \A t \in Threads :
        (pc'[t] # pc[t] /\ pc[t] # "done" /\ Current(t).dryRun)
        => UNCHANGED <<dict, loaded, heap, db, disk, held>>
C6_DryRunChangesNothing == [][C6_DryRunAct]_vars

C6_Witness ==
    \E t \in Threads :
        /\ Returned(t, "writeProperty") /\ op[t].dryRun /\ exc[t] = Null
        /\ ~loaded /\ variant = "shelve" /\ disk # EmptyDict

\* C7: no write is lost: every writeProperty with well-formed arguments
\* returns without raising, and when two threads have written to different
\* resources and all calls have returned, the store holds both values.
C7_NoLostUpdate ==
    /\ \A t \in Threads :
           (Returned(t, "writeProperty") /\ writeProperty_asserts(op[t])) => exc[t] = Null
    /\ \A t \in Threads, u \in Threads :
           (/\ wrote[t] # NoWrite /\ wrote[u] # NoWrite
            /\ wrote[t].url # wrote[u].url
            /\ \A x \in Threads : pc[x] \in {"idle", "done"})
           => Lookup(ObservableDict, wrote[t].url, wrote[t].name) = wrote[t].value

C7_Witness ==
    \E t \in Threads, u \in Threads :
        /\ wrote[t] # NoWrite /\ wrote[u] # NoWrite
        /\ wrote[t].url # wrote[u].url
        /\ \A x \in Threads : pc[x] \in {"idle", "done"}
        /\ Lookup(ObservableDict, wrote[t].url, wrote[t].name) = wrote[t].value
        /\ Lookup(ObservableDict, wrote[u].url, wrote[u].name) = wrote[u].value

\* C8: while a thread is in the part of writeProperty, removeProperty,
\* removeProperties, copyProperties, _lazyOpen, _close or _sync that runs
\* under the write lock, no other thread is between the acquire and the
\* release of any method; so no read happens between another thread's
\* fetch, change and re-store of a property dictionary.
InMethod(t) == pc[t] \notin {"idle", "done"}
InWriting(t) ==
    /\ InMethod(t)
    /\ \/ op[t].name \in {"writeProperty", "removeProperty", "removeProperties",
                          "copyProperties", "close"}
       \/ pc[t] \in {"lo_test", "lo_dict", "lo_loaded", "lo_rel", "sy_sync", "sy_rel"}
C8_MutualExclusion ==
    \A t \in Threads, u \in Threads :
        (t # u /\ InWriting(t)) => ~InMethod(u)

\* a writer between fetch and re-store, and a reader that cannot get in
C8_Witness ==
    \E t \in Threads, u \in Threads :
        /\ t # u
        /\ pc[t] = "wp_store"
        /\ pc[u] = "idle"
        /\ ~ENABLED getProperty_call(u)

\* C9: on the shelve variant, what the store held when it was closed is what
\* every read returns afterwards, from the store opened anew on the same
\* file, until the next change; in particular a value written before the
\* close is returned after it.
C9_DurableRoundTrip ==
    \A t \in Threads :
        (pc[t] = "done" /\ atClose.valid) =>
            /\ op[t].name = "getProperty" =>
                   /\ exc[t] = Null
                   /\ ret[t] = Lookup(atClose.content, op[t].normurl, op[t].propname)
                   /\ \A u \in Threads :
                          (wrote[u] # NoWrite /\ wrote[u].url = op[t].normurl
                           /\ wrote[u].name = op[t].propname) => ret[t] = wrote[u].value
            /\ op[t].name = "getProperties" =>
                   (exc[t] = Null /\ ret[t] = Listing(atClose.content, op[t].normurl))

C9_Witness ==
    \E t \in Threads, u \in Threads :
        /\ Returned(t, "getProperty")
        /\ atClose.valid
        /\ wrote[u] # NoWrite /\ wrote[u].url = op[t].normurl
        /\ wrote[u].name = op[t].propname
        /\ ret[t] = wrote[u].value
        /\ loaded

\* C10: close never raises and leaves loaded = False and self._dict = None,
\* from an open store and from one that is closed or was never opened; the
\* steps of a close of a closed store change nothing; and the shelf's own
\* close() is called only on an open shelf.
C10_ClosedState ==
    \A t \in Threads :
        /\ Returned(t, "close") => (exc[t] = Null /\ ~loaded /\ dict = NoDict)
        /\ pc[t] = "cl_close" => IsShelf
C10_CloseAgainAct ==
    \A t \in Threads :
        (StepOf(t, "close") /\ ~loaded /\ dict = NoDict)
        => UNCHANGED <<dict, loaded, heap, db, disk>>
C10_CloseIsIdempotent == [] C10_ClosedState /\ [][C10_CloseAgainAct]_vars

C10_Witness ==
    \E t \in Threads :
        /\ Returned(t, "close") /\ exc[t] = Null
        /\ ~loaded /\ dict = NoDict
        /\ variant = "shelve" /\ disk # EmptyDict

\* C11: a writeProperty whose normurl is empty or does not start with "/",
\* whose propname is empty or whose propertyvalue is None is over in its
\* first step with an AssertionError, with dryRun and without: the step
\* takes no lock, does not open the store and changes nothing of it.
C11_MalformedAct ==
    \A t \in Threads :
        (/\ pc[t] = "idle" /\ pc'[t] # "idle"
         /\ op'[t].name = "writeProperty"
         /\ \/ op'[t].normurl = << >>
            \/ op'[t].normurl[1] # "/"
            \/ op'[t].propname = ""
            \/ op'[t].propertyvalue = Null)
        => /\ pc'[t] = "done"
           /\ exc'[t] = "AssertionError"
           /\ UNCHANGED <<dict, loaded, heap, db, disk, held>>
C11_MalformedWriteFaults == [][C11_MalformedAct]_vars

C11_Witness ==
    \E t \in Threads :
        /\ Returned(t, "writeProperty") /\ exc[t] = "AssertionError"
        /\ op[t].propertyvalue = Null /\ ~op[t].dryRun
        /\ loaded /\ Keys # {}

\* C12: one caller gives the same calls, close excepted, to a
\* PropertyManager and to a ShelvePropertyManager on an empty file: every
\* call returns the same value, or raises the same exception, on both; the
\* names getProperties returns are compared as a set.
C12_SameResults ==
    \A t \in Threads :
        (pc[t] = "done" /\ twin.turn = "second") =>
            (ret[t] = twin.ret /\ exc[t] = twin.exc)

\* a value read from the shelf, which holds both resources, one of them with
\* its last property removed; the dict has given the same value
C12_Witness ==
    \E t \in Threads :
        /\ Returned(t, "getProperty") /\ twin.turn = "second"
        /\ variant = "shelve" /\ twin.variant = "mem"
        /\ ret[t] = "v2" /\ twin.ret = "v2"
        /\ DOMAIN db = Resources
        /\ \E r \in Resources : DOMAIN db[r] = {}

\* C13: a thread that is in no method, or has just left one by a return or
\* by an exception, holds the lock in no mode; this with a shelf that may
\* raise at every access.
C13_ReleasedOnExit ==
    \A t \in Threads : pc[t] \in {"idle", "done"} => held[t] = << >>

\* a writeProperty that held the write lock twice when sync() raised
C13_Witness ==
    \E t \in Threads :
        /\ Returned(t, "writeProperty") /\ exc[t] = "IOError"
        /\ held[t] = << >>
        /\ loaded /\ db # disk

\* C14: no reachable state is a deadlock on the lock: while a thread is
\* inside a method, some thread can take a step (so that, scheduled fairly,
\* every call returns); two first reads of a closed store included.
C14_NoLockDeadlock ==
    (\E t \in Threads : InMethod(t)) => ENABLED Next

\* C15: no thread calls acquireRead or acquireWrite while it holds the lock
\* in either mode: no thread ever holds more than one level, _lazyOpen and
\* _sync called from inside a method included.
C15_NoNestedAcquire ==
    \A t \in Threads : Len(held[t]) <= 1

\* C16: _lazyOpen initialises only a store that is not loaded: no run of
\* it, one begun by a caller that saw `not self._loaded` before another
\* caller opened the store included, assigns self._dict (an empty dict, or
\* the shelf opened once more) while self._loaded is true.
C16_InitAct ==
    \A t \in Threads : (pc[t] = "lo_dict" /\ pc'[t] = "lo_loaded") => ~loaded
C16_InitialisedOnce == [][C16_InitAct]_vars

\* the statements that read self._loaded or self._dict, and those that
\* assign them or change the mapping, by the place of the thread before them
ReadsShared ==
    {"gp_chk", "gp_read", "gps_chk", "gps_read", "wp_chk", "wp_fetch",
     "rp_chk", "rp_fetch", "rps_chk", "cp_chk", "lo_test", "sy_sync", "cl_test",
     "dump_chk", "dump_items", "del_chk", "del_items"}
AssignsShared ==
    {"lo_dict", "lo_loaded", "wp_store", "rp_store", "rps_del", "cp_copy",
     "cl_close", "cl_dict", "cl_loaded"}

\* C17: a thread about to read self._loaded or self._dict holds the lock in
\* some mode, and a thread about to assign them or to change the mapping
\* holds it in write mode; in the public methods, in __del__ (_check, then
\* _close) and in _dump.
C17_AccessUnderLock ==
    \A t \in Threads :
        /\ pc[t] \in ReadsShared => HoldsAny(t)
        /\ pc[t] \in AssignsShared => HoldsWrite(t)

\* C18: on the shelve variant, whenever no thread holds the write lock the
\* file holds what the open shelf holds; in particular it does when a
\* writeProperty, removeProperty, removeProperties or copyProperties
\* returns: sync() has run after the last assignment or deletion.
C18_FlushedBeforeRelease ==
    (variant = "shelve" /\ loaded /\ IsShelf) =>
        /\ (\A t \in Threads : ~HoldsWrite(t)) => disk = db
        /\ \A t \in Threads : (pc[t] = "done" /\ Mutator(op[t])) => disk = db

C18_Witness ==
    \E t \in Threads :
        /\ Returned(t, "copyProperties") /\ exc[t] = Null
        /\ variant = "shelve" /\ loaded /\ IsShelf
        /\ disk = db /\ DOMAIN disk = Resources
        /\ \A u \in Threads : ~HoldsWrite(u)

\* C19: every key of the open store maps to a property dictionary, never to
\* None, whose values are not None; no step of removeProperty takes a key
\* out of the store, also when it deletes the last property (the key stays,
\* with an empty dictionary); a key leaves the store only in a step of
\* removeProperties of that key or of _close of the in-memory store.
C19_KeysState ==
    \A r \in Keys :
        /\ DOMAIN PropsOf(r) \subseteq Names
        /\ \A n \in DOMAIN PropsOf(r) : PropsOf(r)[n] \in Values
C19_KeysAct ==
    \A r \in DOMAIN ObservableDict :
        /\ (\E t \in Threads : StepOf(t, "removeProperty")) =>
               r \in DOMAIN ObservableDict'
        /\ r \notin DOMAIN ObservableDict' =>
               \E t \in Threads :
                   \/ StepOf(t, "removeProperties") /\ Current(t).normurl = r
                   \/ StepOf(t, "close") /\ variant = "mem"
C19_KeysStay == [] C19_KeysState /\ [][C19_KeysAct]_vars

\* removeProperty has returned and left its resource with no property
C19_Witness ==
    \E t \in Threads :
        /\ Returned(t, "removeProperty") /\ ~op[t].dryRun /\ exc[t] = Null
        /\ op[t].normurl \in Keys
        /\ DOMAIN PropsOf(op[t].normurl) = {}
        /\ variant = "shelve" /\ disk = db

\* C20: a step of writeProperty(R, p, v) or removeProperty(R, p) changes no
\* property but p of R and no other resource; a step of removeProperties(R)
\* changes no resource but R; a step of copyProperties(S, D) none but D; a
\* step of getProperty or getProperties changes nothing a read can see.
Entry(m, r) == IF r \in DOMAIN m THEN m[r] ELSE Null
C20_FrameAct ==
    \A t \in Threads :
        (/\ pc'[t] # pc[t] /\ pc[t] # "done"
         /\ Current(t).name \in {"getProperty", "getProperties", "writeProperty",
                                 "removeProperty", "removeProperties", "copyProperties"})
        => \A r \in Resources :
               /\ ~Targets(Current(t), r) =>
                      Entry(ObservableDict', r) = Entry(ObservableDict, r)
               /\ \A n \in Names :
                      ~TargetsProperty(Current(t), r, n) =>
                          Lookup(ObservableDict', r, n) = Lookup(ObservableDict, r, n)
C20_OnlyTheTarget == [][C20_FrameAct]_vars

\* a property has been written next to another one, beside another resource
C20_Witness ==
    \E t \in Threads :
        /\ Returned(t, "writeProperty") /\ ~op[t].dryRun /\ exc[t] = Null
        /\ Keys = Resources
        /\ DOMAIN PropsOf(op[t].normurl) = Names
        /\ \E r \in Resources : DOMAIN PropsOf(r) # Names
====
